---- MODULE Spec2Model ----
(***************************************************************************)
(* A model of the VP8 frame decoder of src/vp8/decode.go: the limitReader  *)
(* (a byte budget over an io.Reader), the frame-header parser, the image   *)
(* allocator ensureImg and the DecodeFrame orchestration.                  *)
(*                                                                         *)
(* The io.Reader bound by Init is modelled by the number of bytes it holds *)
(* and the number already taken from it; the values of the bytes are drawn *)
(* when a read takes them (a reader's future bytes influence nothing       *)
(* before they are read).  The scratch array of the Decoder is only ever   *)
(* read right after a successful ReadFull has overwritten the part that is *)
(* read, so the slice b of DecodeFrameHeader is modelled as a local value. *)
(***************************************************************************)
EXTENDS Integers, Sequences, FiniteSets, TLC

VARIABLES
    r,            \* Decoder.r: the limitReader [r |-> the source, n |-> the budget]
    frameHeader,  \* Decoder.frameHeader
    mbw,          \* Decoder.mbw
    mbh,          \* Decoder.mbh
    img,          \* Decoder.img: NoImg (nil) or the YCbCr image
    fp,           \* Decoder.fp: the first partition
    ret,          \* what the last call returned: [op, fh, img, err]
    read,         \* the bytes the last call took from the source, in order
    limit,        \* history: the n given to the last Init
    lastKey,      \* history: geometry of the last successfully parsed key frame
    failed        \* history kept by SpecRecover: a call before the last Init
                  \* returned an error

vars == <<r, frameHeader, mbw, mbh, img, fp, ret, read, limit, lastKey, failed>>

----------------------------------------------------------------------------
(* Bounds of the model. *)

\* The longest source an Init binds.
MaxSrc == 11
\* The largest byte budget an Init gives.
MaxN == 11

----------------------------------------------------------------------------
(* Machine arithmetic. *)

RECURSIVE BitAnd(_, _)
\* x & y on non-negative integers
BitAnd(x, y) ==
    IF x = 0 \/ y = 0 THEN 0
    ELSE (IF x % 2 = 1 /\ y % 2 = 1 THEN 1 ELSE 0) + 2 * BitAnd(x \div 2, y \div 2)

RECURSIVE BitOr(_, _)
\* x | y on non-negative integers
BitOr(x, y) ==
    IF x = 0 THEN y
    ELSE IF y = 0 THEN x
    ELSE (IF x % 2 = 1 \/ y % 2 = 1 THEN 1 ELSE 0) + 2 * BitOr(x \div 2, y \div 2)

\* 2^k for k in 0..30
Pow2(k) ==
    << 1, 2, 4, 8, 16, 32, 64, 128, 256, 512, 1024, 2048, 4096, 8192, 16384,
       32768, 65536, 131072, 262144, 524288, 1048576, 2097152, 4194304,
       8388608, 16777216, 33554432, 67108864, 134217728, 268435456,
       536870912, 1073741824 >>[k + 1]

\* x >> k
Shr(x, k) == x \div Pow2(k)

\* x << k in a w-bit unsigned integer: the bits shifted beyond bit w-1 are
\* dropped (x itself is below 2^31, so nothing is dropped when w - k > 30)
Shl(x, k, w) ==
    IF w - k > 30 THEN x * Pow2(k) ELSE (x % Pow2(w - k)) * Pow2(k)

----------------------------------------------------------------------------
(* Errors. *)

\* the nil os.Error
NoErr == "nil"
\* io.ErrUnexpectedEOF
ErrUnexpectedEOF == "io.ErrUnexpectedEOF"
\* os.EOF: what io.ReadFull returns when the source ends before the first byte
EOF == "os.EOF"
\* os.NewError("vp8: invalid format")
ErrInvalidFormat == "vp8: invalid format"

----------------------------------------------------------------------------
(* limitReader. *)

\* io.ReadFull reporting os.EOF for every read at the end of the source,
\* the read of no byte included
ioReadFullEOFAtEnd(src, k) ==
    LET avail == src.len - src.pos
        n     == IF k <= avail THEN k ELSE avail
    IN  [ r   |-> [src EXCEPT !.pos = src.pos + n],
          n   |-> n,
          err |-> IF avail = 0 THEN EOF
                  ELSE IF n = k THEN NoErr
                  ELSE ErrUnexpectedEOF ]

\* io.ReadFull(src, p) with len(p) = k: takes min(k, what the source still
\* holds) bytes; nil when all k were read (also for k = 0), os.EOF when the
\* source ended before the first byte, io.ErrUnexpectedEOF when it ended
\* after some but not all.
ioReadFull(src, k) ==
    LET avail == src.len - src.pos
        n     == IF k <= avail THEN k ELSE avail
    IN  [ r   |-> [src EXCEPT !.pos = src.pos + n],
          n   |-> n,
          err |-> IF n = k THEN NoErr
                  ELSE IF n = 0 THEN EOF
                  ELSE ErrUnexpectedEOF ]

\* ReadFull leaving the budget as it is
ReadFullNoCharge(lr, k) ==
    IF k > lr.n
    THEN [ r |-> lr, n |-> 0, err |-> ErrUnexpectedEOF ]
    ELSE LET got == ioReadFull(lr.r, k)
         IN  [ r   |-> [r |-> got.r, n |-> lr.n],
               n   |-> got.n,
               err |-> got.err ]

\* ReadFull charging the budget with len(p) instead of the bytes read
ReadFullChargesLen(lr, k) ==
    IF k > lr.n
    THEN [ r |-> lr, n |-> 0, err |-> ErrUnexpectedEOF ]
    ELSE LET got == ioReadFull(lr.r, k)
         IN  [ r   |-> [r |-> got.r, n |-> lr.n - k],
               n   |-> got.n,
               err |-> got.err ]

\* limitReader.ReadFull(p) with len(p) = k, on the limitReader lr:
\* the limitReader afterwards, the number of bytes taken, the error.
ReadFull(lr, k) ==
    IF k > lr.n
    THEN [ r |-> lr, n |-> 0, err |-> ErrUnexpectedEOF ]
    ELSE LET got == ioReadFull(lr.r, k)
         IN  [ r   |-> [r |-> got.r, n |-> lr.n - got.n],
               n   |-> got.n,
               err |-> got.err ]

----------------------------------------------------------------------------
(* FrameHeader and the Decoder's fields. *)

\* the zero FrameHeader
ZeroFrameHeader ==
    [ KeyFrame |-> FALSE, VersionNumber |-> 0, ShowFrame |-> FALSE,
      FirstPartitionLen |-> 0, Width |-> 0, Height |-> 0,
      XScale |-> 0, YScale |-> 0 ]

\* the nil *ycbcr.YCbCr
NoImg == [ nil |-> TRUE ]

\* the Width, Height, XScale and YScale of a FrameHeader
Geometry(fh) ==
    [ Width |-> fh.Width, Height |-> fh.Height,
      XScale |-> fh.XScale, YScale |-> fh.YScale ]

\* history value: no key frame has been parsed yet
NoKey == [ none |-> TRUE ]

----------------------------------------------------------------------------
(* DecodeFrameHeader. *)

\* FrameTag starting from a fresh FrameHeader instead of d.frameHeader
FrameTagFresh(fh, b) ==
    [ ZeroFrameHeader EXCEPT
        !.KeyFrame          = (BitAnd(b[1], 1) = 0),
        !.VersionNumber     = BitAnd(Shr(b[1], 1), 7),
        !.ShowFrame         = (BitAnd(Shr(b[1], 4), 1) = 1),
        !.FirstPartitionLen = BitOr(BitOr(Shr(b[1], 5), Shl(b[2], 3, 32)),
                                    Shl(b[3], 11, 32)) ]

\* FrameTag with the key-frame bit not inverted
FrameTagKeyBit(fh, b) ==
    [ fh EXCEPT
        !.KeyFrame          = (BitAnd(b[1], 1) = 1),
        !.VersionNumber     = BitAnd(Shr(b[1], 1), 7),
        !.ShowFrame         = (BitAnd(Shr(b[1], 4), 1) = 1),
        !.FirstPartitionLen = BitOr(BitOr(Shr(b[1], 5), Shl(b[2], 3, 32)),
                                    Shl(b[3], 11, 32)) ]

\* FrameTag with the version not masked to 3 bits
FrameTagNoMask(fh, b) ==
    [ fh EXCEPT
        !.KeyFrame          = (BitAnd(b[1], 1) = 0),
        !.VersionNumber     = Shr(b[1], 1),
        !.ShowFrame         = (BitAnd(Shr(b[1], 4), 1) = 1),
        !.FirstPartitionLen = BitOr(BitOr(Shr(b[1], 5), Shl(b[2], 3, 32)),
                                    Shl(b[3], 11, 32)) ]

\* The four assignments from the first 3 bytes b (b[1] is the code's b[0]).
FrameTag(fh, b) ==
    [ fh EXCEPT
        !.KeyFrame          = (BitAnd(b[1], 1) = 0),
        !.VersionNumber     = BitAnd(Shr(b[1], 1), 7),
        !.ShowFrame         = (BitAnd(Shr(b[1], 4), 1) = 1),
        !.FirstPartitionLen = BitOr(BitOr(Shr(b[1], 5), Shl(b[2], 3, 32)),
                                    Shl(b[3], 11, 32)) ]

\* SyncOk comparing only the first two bytes of the sync code
SyncOkFirstTwo(b) == ~(b[1] # 157 \/ b[2] # 1)

\* The magic sync code check on the 7 further bytes b of a key frame.
SyncOk(b) == ~(b[1] # 157 \/ b[2] # 1 \/ b[3] # 42)

\* The four assignments from the 7 further bytes b of a key frame.
FrameDims(fh, b) ==
    [ fh EXCEPT
        !.Width  = BitOr(Shl(BitAnd(b[5], 63), 8, 32), b[4]),
        !.Height = BitOr(Shl(BitAnd(b[7], 63), 8, 32), b[6]),
        !.XScale = Shr(b[5], 6),
        !.YScale = Shr(b[7], 6) ]

\* MacroBlocks rounding down
MacroBlocksFloor(x) == Shr(x, 4)

\* (x + 0x0f) >> 4
MacroBlocks(x) == Shr(x + 15, 4)

\* what a call returned
Returned(op, fh, im, err) == [ op |-> op, fh |-> fh, img |-> im, err |-> err ]

\* DecodeFrameHeader when the source's next bytes are (a prefix of) hb.
\* r1 and r2 are the two ReadFull calls, fh1 is d.frameHeader after the
\* assignments from the first 3 bytes and fh2 after those from the further 7.
DecodeFrameHeaderOn(hb) ==
    \E r1 \in { ReadFull(r, 3) } :
    \E fh1 \in { FrameTag(frameHeader, SubSeq(hb, 1, 3)) } :
    \E r2 \in { ReadFull(r1.r, 7) } :
        /\ Len(hb) = 10
        /\ UNCHANGED <<img, fp, limit>>
        /\ IF r1.err # NoErr
           THEN \* the first 3 bytes cannot be read
                /\ r' = r1.r
                /\ read' = SubSeq(hb, 1, r1.n)
                /\ ret' = Returned("DecodeFrameHeader", ZeroFrameHeader, NoImg, r1.err)
                /\ UNCHANGED <<frameHeader, mbw, mbh, lastKey, failed>>
           ELSE IF ~fh1.KeyFrame
           THEN \* not a key frame: the header ends here
                /\ r' = r1.r
                /\ read' = SubSeq(hb, 1, 3)
                /\ frameHeader' = fh1
                /\ ret' = Returned("DecodeFrameHeader", fh1, NoImg, NoErr)
                /\ UNCHANGED <<mbw, mbh, lastKey, failed>>
           ELSE IF r2.err # NoErr
           THEN \* the 7 further bytes cannot be read
                /\ r' = r2.r
                /\ read' = SubSeq(hb, 1, 3 + r2.n)
                /\ frameHeader' = fh1
                /\ ret' = Returned("DecodeFrameHeader", ZeroFrameHeader, NoImg, r2.err)
                /\ UNCHANGED <<mbw, mbh, lastKey, failed>>
           ELSE IF ~SyncOk(SubSeq(hb, 4, 10))
           THEN \* the magic sync code is wrong
                /\ r' = r2.r
                /\ read' = hb
                /\ frameHeader' = fh1
                /\ ret' = Returned("DecodeFrameHeader", ZeroFrameHeader, NoImg,
                                   ErrInvalidFormat)
                /\ UNCHANGED <<mbw, mbh, lastKey, failed>>
           ELSE /\ r' = r2.r
                /\ read' = hb
                /\ frameHeader' = FrameDims(fh1, SubSeq(hb, 4, 10))
                /\ mbw' = MacroBlocks(frameHeader'.Width)
                /\ mbh' = MacroBlocks(frameHeader'.Height)
                /\ ret' = Returned("DecodeFrameHeader", frameHeader', NoImg, NoErr)
                /\ lastKey' = Geometry(frameHeader')
                /\ UNCHANGED failed

----------------------------------------------------------------------------
(* The first partition: the boolean decoder that decode.go uses through    *)
(* fp.init, fp.readUint, fp.unexpectedEOF and uniformProb.  Its file is    *)
(* not among the sources; it is modelled from the specification's          *)
(* description (section 4.2) with the registers of the VP8 bitstream       *)
(* guide's boolean decoder: one byte is pulled in whenever fewer than 8    *)
(* bits are buffered, and a pull past the end sets unexpectedEOF.          *)

\* the probability of an unbiased bit
uniformProb == 128

\* the zero partition
ZeroPartition ==
    [ buf |-> <<>>, r |-> 0, rangeM1 |-> 0, bits |-> 0, nBits |-> 0,
      unexpectedEOF |-> FALSE ]

\* partition.init(buf)
PartitionInit(buf) ==
    [ buf |-> buf, r |-> 0, rangeM1 |-> 254, bits |-> 0, nBits |-> 0,
      unexpectedEOF |-> FALSE ]

RECURSIVE NormShift(_)
\* the number of left shifts that bring a range of rangeM1 + 1 back to >= 128
NormShift(rangeM1) ==
    IF rangeM1 >= 127 THEN 0 ELSE 1 + NormShift(2 * (rangeM1 + 1) - 1)

\* partition.readBit(prob): the partition afterwards and the bit
PartitionReadBit(p, prob) ==
    IF p.nBits < 8 /\ p.r >= Len(p.buf)
    THEN [ p |-> [p EXCEPT !.unexpectedEOF = TRUE], bit |-> FALSE ]
    ELSE LET q == IF p.nBits < 8
                  THEN [p EXCEPT !.bits  = BitOr(p.bits,
                                                 Shl(p.buf[p.r + 1], 8 - p.nBits, 32)),
                                 !.r     = p.r + 1,
                                 !.nBits = p.nBits + 8]
                  ELSE p
             split == Shr(q.rangeM1 * prob, 8) + 1
             bit   == q.bits >= Shl(split, 8, 32)
             q2 == IF bit
                   THEN [q EXCEPT !.rangeM1 = q.rangeM1 - split,
                                  !.bits    = q.bits - Shl(split, 8, 32)]
                   ELSE [q EXCEPT !.rangeM1 = split - 1]
             shift == NormShift(q2.rangeM1)
             q3 == [q2 EXCEPT !.rangeM1 = (q2.rangeM1 + 1) * Pow2(shift) - 1,
                              !.bits    = Shl(q2.bits, shift, 32),
                              !.nBits   = q2.nBits - shift]
         IN  [ p |-> q3, bit |-> bit ]

RECURSIVE PartitionReadUint(_, _, _)
\* partition.readUint(prob, n): n bits, most significant first
PartitionReadUint(p, prob, n) ==
    IF n = 0 THEN [ p |-> p, u |-> 0 ]
    ELSE LET one  == PartitionReadBit(p, prob)
             rest == PartitionReadUint(one.p, prob, n - 1)
         IN  [ p |-> rest.p,
               u |-> BitOr(IF one.bit THEN Pow2(n - 1) ELSE 0, rest.u) ]

----------------------------------------------------------------------------
(* ensureImg. *)

\* image.Rect(x0, y0, x1, y1): a well-formed rectangle, coordinates swapped
\* where needed
ImageRect(x0, y0, x1, y1) ==
    [ Min |-> [X |-> IF x0 > x1 THEN x1 ELSE x0, Y |-> IF y0 > y1 THEN y1 ELSE y0],
      Max |-> [X |-> IF x0 > x1 THEN x0 ELSE x1, Y |-> IF y0 > y1 THEN y0 ELSE y1] ]

\* The allocations the state refers to; an allocation is named by a number.
LiveBufs == { i.buf : i \in { j \in {img, ret.img} : j # NoImg } }

\* make: an allocation other than every one still referred to
NewBuf == CHOOSE b \in 1..3 : b \notin LiveBufs

\* buf[lo:hi]
Slice(b, lo, hi) == [ buf |-> b, lo |-> lo, hi |-> hi ]

\* ImgCovers comparing the widths only
ImgCoversWidthOnly(im, w, h) ==
    /\ im # NoImg
    /\ im.Rect.Min.X = 0 /\ im.Rect.Min.Y = 0
    /\ im.Rect.Max.X >= 16 * w

\* whether ensureImg keeps the image im for a grid of w x h macroblocks
ImgCovers(im, w, h) ==
    /\ im # NoImg
    /\ im.Rect.Min.X = 0 /\ im.Rect.Min.Y = 0
    /\ im.Rect.Max.X >= 16 * w /\ im.Rect.Max.Y >= 16 * h

\* ensureImg: d.img afterwards, from d.img, d.mbw, d.mbh and d.frameHeader
EnsureImg(im, w, h, fh) ==
    IF ImgCovers(im, w, h) THEN im
    ELSE LET n == w * h
             b == NewBuf
         IN  [ buf     |-> b,
               len     |-> n * (1*16*16 + 2*8*8),
               Y       |-> Slice(b, n * (0*16*16 + 0*8*8), n * (1*16*16 + 0*8*8)),
               Cb      |-> Slice(b, n * (1*16*16 + 0*8*8), n * (1*16*16 + 1*8*8)),
               Cr      |-> Slice(b, n * (1*16*16 + 1*8*8), n * (1*16*16 + 2*8*8)),
               SubsampleRatio |-> "SubsampleRatio420",
               YStride |-> w * 16,
               CStride |-> w * 8,
               Rect    |-> ImageRect(0, 0, fh.Width, fh.Height) ]

----------------------------------------------------------------------------
(* parseOtherHeaders and DecodeFrame. *)

\* parseOtherHeaders if it read the two flag bits of every frame
ParseOtherHeadersAnyFrame(lr, part, fh, v) ==
    LET rd == ReadFull(lr, fh.FirstPartitionLen)
        p0 == PartitionInit([i \in 1..fh.FirstPartitionLen |-> v])
        p1 == PartitionReadUint(PartitionReadUint(p0, uniformProb, 1).p,
                                uniformProb, 1).p
    IN  IF rd.err # NoErr
        THEN [ r |-> rd.r, fp |-> part, n |-> rd.n, err |-> rd.err ]
        ELSE [ r |-> rd.r, fp |-> p1, n |-> rd.n,
               err |-> IF p1.unexpectedEOF THEN ErrUnexpectedEOF ELSE NoErr ]

\* parseOtherHeaders if d.fp.init kept the partition's unexpectedEOF flag
ParseOtherHeadersStickyEOF(lr, part, fh, v) ==
    LET rd == ReadFull(lr, fh.FirstPartitionLen)
        p0 == [ PartitionInit([i \in 1..fh.FirstPartitionLen |-> v])
                    EXCEPT !.unexpectedEOF = part.unexpectedEOF ]
        p1 == IF fh.KeyFrame
              THEN PartitionReadUint(PartitionReadUint(p0, uniformProb, 1).p,
                                     uniformProb, 1).p
              ELSE p0
    IN  IF rd.err # NoErr
        THEN [ r |-> rd.r, fp |-> part, n |-> rd.n, err |-> rd.err ]
        ELSE [ r |-> rd.r, fp |-> p1, n |-> rd.n,
               err |-> IF p1.unexpectedEOF THEN ErrUnexpectedEOF ELSE NoErr ]

\* parseOtherHeaders on the limitReader lr and the frame header fh, the
\* first partition's bytes all being v: the limitReader and d.fp afterwards,
\* the number of bytes taken and the error.
ParseOtherHeaders(lr, part, fh, v) ==
    LET rd == ReadFull(lr, fh.FirstPartitionLen)
        p0 == PartitionInit([i \in 1..fh.FirstPartitionLen |-> v])
        p1 == IF fh.KeyFrame
              THEN PartitionReadUint(PartitionReadUint(p0, uniformProb, 1).p,
                                     uniformProb, 1).p
              ELSE p0
    IN  IF rd.err # NoErr
        THEN [ r |-> rd.r, fp |-> part, n |-> rd.n, err |-> rd.err ]
        ELSE [ r |-> rd.r, fp |-> p1, n |-> rd.n,
               err |-> IF p1.unexpectedEOF THEN ErrUnexpectedEOF ELSE NoErr ]

\* DecodeFrame when the source's next bytes all are v.
DecodeFrameOn(v) ==
    \E poh \in { ParseOtherHeaders(r, fp, frameHeader, v) } :
        /\ img' = EnsureImg(img, mbw, mbh, frameHeader)
        /\ r' = poh.r
        /\ fp' = poh.fp
        /\ read' = [i \in 1..poh.n |-> v]
        /\ ret' = IF poh.err # NoErr
                  THEN Returned("DecodeFrame", ZeroFrameHeader, NoImg, poh.err)
                  ELSE Returned("DecodeFrame", ZeroFrameHeader, img', NoErr)
        /\ UNCHANGED <<frameHeader, mbw, mbh, limit, lastKey, failed>>

----------------------------------------------------------------------------
(* Init and the calls a caller can make. *)

\* Init if it also cleared the frame header and the grid
InitOnClears(len, n) ==
    /\ r' = [ r |-> [len |-> len, pos |-> 0], n |-> n ]
    /\ limit' = n
    /\ read' = <<>>
    /\ ret' = Returned("Init", ZeroFrameHeader, NoImg, NoErr)
    /\ frameHeader' = ZeroFrameHeader
    /\ mbw' = 0
    /\ mbh' = 0
    /\ UNCHANGED <<img, fp, lastKey>>

\* Init(src, n), src a reader that holds len bytes
InitOn(len, n) ==
    /\ r' = [ r |-> [len |-> len, pos |-> 0], n |-> n ]
    /\ limit' = n
    /\ read' = <<>>
    /\ ret' = Returned("Init", ZeroFrameHeader, NoImg, NoErr)
    /\ UNCHANGED <<frameHeader, mbw, mbh, img, fp, lastKey>>

\* The headers a source supplies: 3 tag bytes, then the sync code and the
\* width and height fields.
\* key frames with a first partition of 0 and of 1 byte
KeyTags == { <<0, 0, 0>>, <<32, 0, 0>> }
\* interframes with a first partition of 0 and of 2 bytes
InterTags == { <<1, 0, 0>>, <<65, 0, 0>> }
GoodSync == <<157, 1, 42>>
BadSyncs == { <<156, 1, 42>>, <<157, 0, 42>>, <<157, 1, 43>> }
\* 176 x 144 with scales 0, and 20 x 160 with scales 1 and 3
Dims == { <<176, 0, 144, 0>>, <<20, 64, 160, 192>> }
\* the values of a first partition's bytes
PartBytes == { 0, 255 }

\* NewDecoder(): the zero Decoder
NewDecoder ==
    /\ r = [ r |-> [len |-> 0, pos |-> 0], n |-> 0 ]
    /\ frameHeader = ZeroFrameHeader
    /\ mbw = 0
    /\ mbh = 0
    /\ img = NoImg
    /\ fp = ZeroPartition
    /\ ret = Returned("NewDecoder", ZeroFrameHeader, NoImg, NoErr)
    /\ read = <<>>
    /\ limit = 0
    /\ lastKey = NoKey
    /\ failed = FALSE

\* a wrong sync code comes with one choice of the fields behind it
DecodeFrameHeader ==
    \E t \in KeyTags \cup InterTags, s \in {GoodSync} \cup BadSyncs, d \in Dims :
        /\ s = GoodSync \/ d = <<176, 0, 144, 0>>
        /\ DecodeFrameHeaderOn(t \o s \o d)

DecodeFrame == \E v \in PartBytes : DecodeFrameOn(v)

----------------------------------------------------------------------------
(* Spec: a Decoder re-used for any number of frames.  Each Init binds a    *)
(* source and a budget of which one at least is the largest of the model:  *)
(* either the budget or the source is what runs short.                     *)

Init ==
    \E len \in 0..MaxSrc, n \in 0..MaxN :
        /\ len = MaxSrc \/ n = MaxN
        /\ InitOn(len, n)
        /\ UNCHANGED failed

Next == Init \/ DecodeFrameHeader \/ DecodeFrame

Spec == NewDecoder /\ [][Next]_vars

----------------------------------------------------------------------------
(* SpecFrame: one frame of a new Decoder, for every source length and      *)
(* every budget.                                                           *)

\* NewDecoder() followed by Init(src, n)
InitFrame ==
    \E len \in 0..MaxSrc, n \in 0..MaxN :
        /\ r = [ r |-> [len |-> len, pos |-> 0], n |-> n ]
        /\ limit = n
        /\ frameHeader = ZeroFrameHeader
        /\ mbw = 0
        /\ mbh = 0
        /\ img = NoImg
        /\ fp = ZeroPartition
        /\ ret = Returned("Init", ZeroFrameHeader, NoImg, NoErr)
        /\ read = <<>>
        /\ lastKey = NoKey
        /\ failed = FALSE

NextFrame == DecodeFrameHeader \/ DecodeFrame

SpecFrame == InitFrame /\ [][NextFrame]_vars

----------------------------------------------------------------------------
(* SpecHeader: DecodeFrameHeader as a function of the header's bytes: the  *)
(* first call after Init on a source and a budget that hold a whole        *)
(* header, for a wide set of byte values.                                  *)

ByteVals == 0..255
WideTags == ByteVals \X {0, 1, 255} \X {0, 1, 255}
WideSyncs == BadSyncs \cup { <<0, 0, 0>>, <<42, 1, 157>>, <<255, 255, 255>> }
WideFields == { <<176, 0>>, <<144, 0>>, <<0, 0>>, <<20, 64>>, <<1, 128>>, <<255, 255>> }

InitHeader ==
    /\ r = [ r |-> [len |-> MaxSrc, pos |-> 0], n |-> MaxN ]
    /\ limit = MaxN
    /\ frameHeader = ZeroFrameHeader
    /\ mbw = 0
    /\ mbh = 0
    /\ img = NoImg
    /\ fp = ZeroPartition
    /\ ret = Returned("Init", ZeroFrameHeader, NoImg, NoErr)
    /\ read = <<>>
    /\ lastKey = NoKey
    /\ failed = FALSE

FirstDecodeFrameHeader ==
    /\ ret.op = "Init"
    /\ \E t \in WideTags, s \in {GoodSync} \cup WideSyncs, w \in WideFields, h \in WideFields :
        /\ s = GoodSync \/ w \o h = <<176, 0, 144, 0>>
        /\ DecodeFrameHeaderOn(t \o s \o w \o h)

NextHeader == FirstDecodeFrameHeader

SpecHeader == InitHeader /\ [][NextHeader]_vars

----------------------------------------------------------------------------
(* SpecSizes: a Decoder re-used for frames of three sizes, each Init       *)
(* binding a source and a budget that hold a whole frame.  The third size  *)
(* fits inside the first, so that ensureImg keeps a buffer across a change *)
(* of dimensions.                                                          *)

\* the sizes of Dims, and 32 x 32 with scales 0
Sizes == Dims \cup { <<32, 0, 32, 0>> }

InitWhole == InitOn(MaxSrc, MaxN) /\ UNCHANGED failed

DecodeFrameHeaderSized ==
    \E t \in KeyTags \cup InterTags, d \in Sizes :
        DecodeFrameHeaderOn(t \o GoodSync \o d)

NextSizes == InitWhole \/ DecodeFrameHeaderSized \/ DecodeFrame

SpecSizes == NewDecoder /\ [][NextSizes]_vars

----------------------------------------------------------------------------
(* SpecRecover: a Decoder re-used after calls that failed.  The sources    *)
(* and budgets bound are those that make each kind of failure happen (an   *)
(* empty source, a source ending inside the header or just before the      *)
(* first partition, a budget below the tag or below the frame) and the     *)
(* ones that hold a whole frame; failed records that a call had failed     *)
(* when Init was called.                                                   *)

\* the pairs <<bytes the source holds, budget>> of the Inits
RecoverInits ==
    ({0, 5, MaxSrc - 1, MaxSrc} \X {MaxN}) \cup ({MaxSrc} \X {2, MaxN - 1})

InitRecover ==
    \E p \in RecoverInits :
        /\ InitOn(p[1], p[2])
        /\ failed' = (failed \/ ret.err # NoErr)

NextRecover == InitRecover \/ DecodeFrameHeader \/ DecodeFrame

SpecRecover == NewDecoder /\ [][NextRecover]_vars

----------------------------------------------------------------------------
(* Properties. *)

\* the bytes the source still holds
Avail == r.r.len - r.r.pos

\* the last call was op
Called(op) == ret.op = op

\* the first byte of a header announces a key frame
KeyTagByte(b0) == b0 % 2 = 0

\* C1: a DecodeFrameHeader that finds 10 bytes within the budget and in the
\* source, the first announcing a key frame, takes all 10, and when bytes
\* 3-5 are not 0x9D 0x01 0x2A it fails with the invalid-format error, which
\* is not io.ErrUnexpectedEOF.
C1_SyncMismatchIsInvalidFormat ==
    [][ ( /\ ret'.op = "DecodeFrameHeader"
          /\ r.n >= 10 /\ Avail >= 10
          /\ KeyTagByte(read'[1]) )
        => /\ Len(read') = 10
           /\ <<read'[4], read'[5], read'[6]>> # <<157, 1, 42>>
                => /\ ret'.err = ErrInvalidFormat
                   /\ ret'.err # ErrUnexpectedEOF ]_vars

\* C1 witness: a key-frame header whose third sync byte alone is wrong
\* was rejected as invalid.
C1_Witness ==
    /\ Called("DecodeFrameHeader")
    /\ Len(read) = 10 /\ KeyTagByte(read[1])
    /\ <<read[4], read[5], read[6]>> = <<157, 1, 43>>
    /\ ret.err = ErrInvalidFormat

\* the last DecodeFrameHeader got fewer bytes than its header has
ShortHeaderRead ==
    \/ Len(read) < 3
    \/ KeyTagByte(read[1]) /\ Len(read) < 10

\* C2 (as claimed): every DecodeFrameHeader that could not get its 3 bytes,
\* or the 7 further bytes of a key frame, returns io.ErrUnexpectedEOF.
C2_ShortReadIsUnexpectedEOF ==
    (Called("DecodeFrameHeader") /\ ShortHeaderRead) => ret.err = ErrUnexpectedEOF

\* C3 (as claimed): every DecodeFrame that got fewer bytes than the first
\* partition length of the stored header returns io.ErrUnexpectedEOF and no
\* image.
C3_ShortPartitionIsUnexpectedEOF ==
    (Called("DecodeFrame") /\ Len(read) < frameHeader.FirstPartitionLen)
        => ret.err = ErrUnexpectedEOF /\ ret.img = NoImg

\* C4: once a key frame has been parsed, the stored width, height and
\* scales are those of the last successfully parsed key frame and the grid
\* is the one derived from them, whatever calls followed; and a successful
\* DecodeFrameHeader of a non-key frame returns exactly that geometry.
C4_NonKeyInheritsGeometry ==
    lastKey # NoKey =>
        /\ Geometry(frameHeader) = lastKey
        /\ mbw = (lastKey.Width + 15) \div 16
        /\ mbh = (lastKey.Height + 15) \div 16
        /\ (Called("DecodeFrameHeader") /\ ret.err = NoErr /\ ~ret.fh.KeyFrame)
              => Geometry(ret.fh) = lastKey

\* C4 witness: a non-key frame was decoded after the key frame of 176 x 144.
C4_Witness ==
    /\ Called("DecodeFrame") /\ ret.err = NoErr
    /\ ~frameHeader.KeyFrame
    /\ lastKey = [Width |-> 176, Height |-> 144, XScale |-> 0, YScale |-> 0]
    /\ frameHeader.Width = 176 /\ frameHeader.Height = 144

\* the macroblock grid an image was allocated for
AllocW(im) == im.YStride \div 16
AllocH(im) ==
    IF AllocW(im) = 0 THEN 0 ELSE (im.Y.hi - im.Y.lo) \div (256 * AllocW(im))

\* C5 (as claimed): a DecodeFrame whose grid is no larger, in both axes,
\* than the grid the image was allocated for keeps the allocation.
C5_EnsureImgIdempotent ==
    [][ ( /\ ret'.op = "DecodeFrame"
          /\ img # NoImg
          /\ mbw <= AllocW(img) /\ mbh <= AllocH(img) )
        => img'.buf = img.buf ]_vars

\* C6 (as claimed): the image's allocation never gets smaller.
C6_NeverShrunk ==
    [][ (img # NoImg /\ img' # NoImg) => img'.len >= img.len ]_vars

\* C6 (amended): only DecodeFrame replaces the image, and exactly when there
\* is none or the grid exceeds the image's rectangle in width or in height;
\* the new allocation holds exactly the current grid, so it is no smaller
\* than the old one whenever the grid is at least the old grid in both axes.
C6_ReplacedWhenGridExceedsRect ==
    [][ /\ img' # img => ret'.op = "DecodeFrame"
        /\ ret'.op = "DecodeFrame" =>
              /\ img' # img <=> \/ img = NoImg
                                \/ img.Rect.Max.X < 16 * mbw
                                \/ img.Rect.Max.Y < 16 * mbh
              /\ img' # img =>
                    /\ img'.len = mbw * mbh * 384
                    /\ (img # NoImg /\ mbw >= AllocW(img) /\ mbh >= AllocH(img))
                          => img'.len >= img.len ]_vars

\* C6 witness: the 11 x 9 image is a second allocation: it replaced a
\* smaller one.
C6_Witness ==
    /\ img # NoImg
    /\ img.buf = 2
    /\ img.len = 11 * 9 * 384

\* the budget is what Init gave less what was taken from the source
C7_Budget ==
    /\ r.n >= 0
    /\ r.r.pos <= limit
    /\ r.n = limit - r.r.pos

\* what a call takes is what it charges, and a read beyond the budget takes
\* nothing
C7_Step ==
    /\ ret'.op \in {"DecodeFrameHeader", "DecodeFrame"} =>
          /\ r'.r.pos - r.r.pos = Len(read')
          /\ r.n - r'.n = Len(read')
    /\ (ret'.op = "DecodeFrameHeader" /\ r.n < 3) => (r' = r /\ read' = <<>>)
    /\ (ret'.op = "DecodeFrame" /\ r.n < frameHeader.FirstPartitionLen)
          => (r' = r /\ read' = <<>>)
    /\ ( /\ ret'.op = "DecodeFrameHeader"
         /\ r.n >= 3 /\ r.n < 10 /\ Avail >= 3
         /\ KeyTagByte(read'[1]) )
          => (Len(read') = 3 /\ r'.n = r.n - 3)

\* C7: after Init(r, n) the bytes taken from r never exceed n, the budget
\* is n less the bytes taken and never negative, every call charges exactly
\* the bytes it took, and a read that exceeds the budget takes none.
C7_BudgetAccounting == []C7_Budget /\ [][C7_Step]_vars

\* C7 witness: the source ended after 2 of the 3 header bytes; the budget
\* was charged those 2 bytes and some budget is left.
C7_Witness ==
    /\ Called("DecodeFrameHeader") /\ ret.err = ErrUnexpectedEOF
    /\ Len(read) = 2
    /\ limit >= 3 /\ r.n = limit - 2

\* the header's first three bytes
TagRead == <<read[1], read[2], read[3]>>

\* C8 (as claimed): the bytes 0x10 0x00 0x00 are an interframe header:
\* only 3 bytes are taken and the header has KeyFrame false, version 0,
\* ShowFrame false and a first partition of 0 bytes.
C8_TagIsInterframe ==
    (Called("DecodeFrameHeader") /\ Len(read) >= 3 /\ TagRead = <<16, 0, 0>>)
        => /\ Len(read) = 3
           /\ ret.err = NoErr
           /\ ~ret.fh.KeyFrame /\ ret.fh.VersionNumber = 0
           /\ ~ret.fh.ShowFrame /\ ret.fh.FirstPartitionLen = 0

\* C8 (amended): 0x10 0x00 0x00 is a key-frame header with version 0,
\* ShowFrame true and a first partition of 0 bytes, so the 7 further bytes
\* are taken too; 0x01 0x00 0x00 is the interframe header with version 0,
\* ShowFrame false and a first partition of 0 bytes, and only its 3 bytes
\* are taken.
C8_TagIsShownKeyFrame ==
    Called("DecodeFrameHeader") /\ Len(read) >= 3 =>
        /\ TagRead = <<16, 0, 0>> =>
              /\ Len(read) = 10
              /\ frameHeader.KeyFrame /\ frameHeader.VersionNumber = 0
              /\ frameHeader.ShowFrame /\ frameHeader.FirstPartitionLen = 0
              /\ ret.err = NoErr =>
                    /\ ret.fh.KeyFrame /\ ret.fh.VersionNumber = 0
                    /\ ret.fh.ShowFrame /\ ret.fh.FirstPartitionLen = 0
        /\ TagRead = <<1, 0, 0>> =>
              /\ Len(read) = 3
              /\ ret.err = NoErr
              /\ ~ret.fh.KeyFrame /\ ret.fh.VersionNumber = 0
              /\ ~ret.fh.ShowFrame /\ ret.fh.FirstPartitionLen = 0

\* C8 witness: a header starting 0x10 0x00 0x00 was parsed successfully,
\* as a key frame.
C8_Witness ==
    /\ Called("DecodeFrameHeader") /\ ret.err = NoErr
    /\ Len(read) = 10 /\ TagRead = <<16, 0, 0>>
    /\ ret.fh.KeyFrame /\ ret.fh.ShowFrame

\* C9: a successful DecodeFrameHeader returns KeyFrame iff bit 0 of b0 is 0,
\* the version in bits 1-3 of b0, ShowFrame in bit 4 of b0, and the first
\* partition length (b0 >> 5) + 8*b1 + 2048*b2, below 2^19.
C9_TagFields ==
    (Called("DecodeFrameHeader") /\ ret.err = NoErr) =>
        /\ ret.fh.KeyFrame = (read[1] % 2 = 0)
        /\ ret.fh.VersionNumber = (read[1] \div 2) % 8
        /\ ret.fh.VersionNumber \in 0..7
        /\ ret.fh.ShowFrame = ((read[1] \div 16) % 2 = 1)
        /\ ret.fh.FirstPartitionLen
              = (read[1] \div 32) + 8 * read[2] + 2048 * read[3]
        /\ ret.fh.FirstPartitionLen \in 0..524287

\* C9 witness: the header 0xFF 0xFF 0xFF: an interframe of version 7 with
\* the largest first partition length.
C9_Witness ==
    /\ Called("DecodeFrameHeader") /\ ret.err = NoErr
    /\ TagRead = <<255, 255, 255>>
    /\ ret.fh.VersionNumber = 7
    /\ ret.fh.FirstPartitionLen = 524287

\* the 16-bit little-endian fields behind the sync code
WidthField == read[7] + 256 * read[8]
HeightField == read[9] + 256 * read[10]

\* ceil(x / 16)
Ceil16(x) == (x \div 16) + (IF x % 16 = 0 THEN 0 ELSE 1)

\* C10: a successful DecodeFrameHeader of a key frame returns the low 14
\* bits of the two fields as width and height and their top 2 bits as the
\* scales, and sets the grid to ceil(width/16) x ceil(height/16); the
\* fields 176 and 144 give 176 x 144, scales 0 and a grid of 11 x 9.
C10_KeyFrameGeometry ==
    (Called("DecodeFrameHeader") /\ ret.err = NoErr /\ ret.fh.KeyFrame) =>
        /\ Len(read) = 10
        /\ ret.fh.Width = WidthField % 16384
        /\ ret.fh.XScale = WidthField \div 16384
        /\ ret.fh.Height = HeightField % 16384
        /\ ret.fh.YScale = HeightField \div 16384
        /\ mbw = Ceil16(ret.fh.Width)
        /\ mbh = Ceil16(ret.fh.Height)
        /\ (WidthField = 176 /\ HeightField = 144) =>
              /\ ret.fh.Width = 176 /\ ret.fh.Height = 144
              /\ ret.fh.XScale = 0 /\ ret.fh.YScale = 0
              /\ mbw = 11 /\ mbh = 9

\* C10 witness: the key frame of 176 x 144 was parsed.
C10_Witness ==
    /\ Called("DecodeFrameHeader") /\ ret.err = NoErr /\ ret.fh.KeyFrame
    /\ WidthField = 176 /\ HeightField = 144
    /\ mbw = 11 /\ mbh = 9

\* C11: on a decoder that has not yet parsed a key-frame header, a
\* DecodeFrame that follows the DecodeFrameHeader of a non-key frame does
\* not return a frame: it returns an error and no image.
C11_NoFrameBeforeKeyFrame ==
    [][ ( /\ ret.op = "DecodeFrameHeader"
          /\ ret.err = NoErr
          /\ ~ret.fh.KeyFrame
          /\ lastKey = NoKey
          /\ ret'.op = "DecodeFrame" )
        => /\ ret'.err # NoErr
           /\ ret'.img = NoImg ]_vars

\* C12: whenever DecodeFrame succeeds, the rectangle of the image it
\* returns is (0,0)-(Width,Height) of the current frame header.
C12_RectIsFrameSize ==
    (Called("DecodeFrame") /\ ret.err = NoErr)
        => ret.img.Rect = [ Min |-> [X |-> 0, Y |-> 0],
                            Max |-> [X |-> frameHeader.Width,
                                     Y |-> frameHeader.Height] ]

\* the slices s and t share no element
Disjoint(s, t) == s.hi <= t.lo \/ t.hi <= s.lo

\* C13: whenever DecodeFrame succeeds, the image it returns covers the
\* current grid: YStride >= 16*mbw, CStride >= 8*mbw, Y holds at least
\* 256*mbw*mbh samples and Cb and Cr at least 64*mbw*mbh each, and the
\* three planes are disjoint ranges within one and the same allocation.
C13_BufferCoversGrid ==
    (Called("DecodeFrame") /\ ret.err = NoErr)
        => /\ ret.img # NoImg
           /\ ret.img.YStride >= 16 * mbw
           /\ ret.img.CStride >= 8 * mbw
           /\ ret.img.Y.hi - ret.img.Y.lo >= 256 * mbw * mbh
           /\ ret.img.Cb.hi - ret.img.Cb.lo >= 64 * mbw * mbh
           /\ ret.img.Cr.hi - ret.img.Cr.lo >= 64 * mbw * mbh
           /\ \A s \in {ret.img.Y, ret.img.Cb, ret.img.Cr} :
                /\ s.buf = ret.img.buf
                /\ 0 <= s.lo /\ s.lo <= s.hi /\ s.hi <= ret.img.len
           /\ Disjoint(ret.img.Y, ret.img.Cb)
           /\ Disjoint(ret.img.Y, ret.img.Cr)
           /\ Disjoint(ret.img.Cb, ret.img.Cr)

\* C13 witness: a 32 x 32 frame was decoded into the buffer that was
\* allocated for a 176 x 144 frame.
C13_Witness ==
    /\ Called("DecodeFrame")
    /\ ret.err = NoErr
    /\ mbw = 2 /\ mbh = 2
    /\ ret.img.YStride = 176
    /\ ret.img.len = 99 * 384

\* the header a new Decoder returns for the key-frame header bytes b
NewDecoderKeyHeader(b) ==
    [ KeyFrame          |-> TRUE,
      VersionNumber     |-> (b[1] \div 2) % 8,
      ShowFrame         |-> ((b[1] \div 16) % 2 = 1),
      FirstPartitionLen |-> (b[1] \div 32) + 8 * b[2] + 2048 * b[3],
      Width             |-> (b[7] + 256 * b[8]) % 16384,
      Height            |-> (b[9] + 256 * b[10]) % 16384,
      XScale            |-> b[8] \div 64,
      YScale            |-> b[10] \div 64 ]

\* after an earlier call failed and Init bound a source and a budget that
\* hold a key-frame header with the right sync code, DecodeFrameHeader
\* succeeds and returns the header a new Decoder returns
C14_HeaderAfterError ==
    ( /\ failed
      /\ ret.op = "Init"
      /\ ret'.op = "DecodeFrameHeader"
      /\ r.n >= 10 /\ Avail >= 10
      /\ KeyTagByte(read'[1])
      /\ <<read'[4], read'[5], read'[6]>> = <<157, 1, 42>> )
    => /\ ret'.err = NoErr
       /\ ret'.fh = NewDecoderKeyHeader(read')
       /\ frameHeader' = ret'.fh

\* and the DecodeFrame that follows succeeds when the budget and the
\* source hold the first partition and the partition holds the two bits
C14_FrameAfterError ==
    ( /\ failed
      /\ ret.op = "DecodeFrameHeader" /\ ret.err = NoErr /\ ret.fh.KeyFrame
      /\ r.r.pos = 10
      /\ ret'.op = "DecodeFrame"
      /\ r.n >= frameHeader.FirstPartitionLen
      /\ Avail >= frameHeader.FirstPartitionLen
      /\ \/ frameHeader.FirstPartitionLen >= 2
         \/ frameHeader.FirstPartitionLen = 1 /\ read'[1] < 128 )
    => /\ ret'.err = NoErr
       /\ ret'.img # NoImg
       /\ frameHeader' = NewDecoderKeyHeader(read)

\* C14: the decoder remains usable after an error: after a call has failed,
\* Init with a source and a budget holding a well-formed key frame, then
\* DecodeFrameHeader and DecodeFrame, succeed, and the header returned is
\* the one a new Decoder returns for those bytes.
C14_UsableAfterError ==
    [][C14_HeaderAfterError /\ C14_FrameAfterError]_vars

\* C14 witness: after an earlier failure, a key frame of 11 bytes was
\* decoded from the start of a newly bound source.
C14_Witness ==
    /\ failed
    /\ Called("DecodeFrame") /\ ret.err = NoErr /\ ret.img # NoImg
    /\ frameHeader.KeyFrame /\ frameHeader.FirstPartitionLen = 1
    /\ r.r.pos = 11 /\ r.n = limit - 11
    /\ Len(read) = 1

\* the partition p after two bits of probability uniformProb were read
AfterTwoBits(p) ==
    PartitionReadBit(PartitionReadBit(p, uniformProb).p, uniformProb).p

\* C15: a DecodeFrame that got the first partition's bytes leaves, for a
\* key frame, the partition as it is two uniform-probability bits after
\* its initialisation with those bytes; it fails with io.ErrUnexpectedEOF
\* and returns no image exactly when the partition's unexpectedEOF flag is
\* then set, which it is when the partition is empty.  For a non-key frame
\* the partition is left as initialised, no bit read, and the call succeeds.
C15_KeyFrameReadsTwoBits ==
    (Called("DecodeFrame") /\ Len(read) = frameHeader.FirstPartitionLen) =>
        IF frameHeader.KeyFrame
        THEN /\ fp = AfterTwoBits(PartitionInit(read))
             /\ fp.unexpectedEOF
                  => ret.err = ErrUnexpectedEOF /\ ret.img = NoImg
             /\ ~fp.unexpectedEOF
                  => ret.err = NoErr /\ ret.img # NoImg
             /\ frameHeader.FirstPartitionLen = 0 => fp.unexpectedEOF
        ELSE /\ fp = PartitionInit(read)
             /\ ~fp.unexpectedEOF
             /\ ret.err = NoErr /\ ret.img # NoImg

\* C15 witness: the DecodeFrame of a key frame with an empty first
\* partition failed on the partition's flag.
C15_Witness ==
    /\ Called("DecodeFrame")
    /\ frameHeader.KeyFrame /\ frameHeader.FirstPartitionLen = 0
    /\ r.r.pos = 10 /\ read = <<>>
    /\ fp.unexpectedEOF
    /\ ret.err = ErrUnexpectedEOF /\ ret.img = NoImg

\* C16: the DecodeFrame that follows the successful DecodeFrameHeader of a
\* non-key frame with a first partition of 0 bytes succeeds and returns
\* the Decoder's image, takes no byte and leaves the limitReader as it is,
\* whatever the budget and the source still hold.
C16_EmptyPartitionInterframe ==
    [][ ( /\ ret.op = "DecodeFrameHeader"
          /\ ret.err = NoErr
          /\ ~ret.fh.KeyFrame
          /\ ret.fh.FirstPartitionLen = 0
          /\ ret'.op = "DecodeFrame" )
        => /\ ret'.err = NoErr
           /\ ret'.img # NoImg
           /\ ret'.img = img'
           /\ read' = <<>>
           /\ r' = r ]_vars

\* C16 witness: the header took the last 3 bytes of the budget and of the
\* source, and the DecodeFrame of its empty partition succeeded.
C16_Witness ==
    /\ Called("DecodeFrame") /\ ret.err = NoErr /\ ret.img # NoImg
    /\ ~frameHeader.KeyFrame /\ frameHeader.FirstPartitionLen = 0
    /\ limit = 3 /\ r.n = 0
    /\ r.r.pos = 3 /\ Avail = 0

\* the bytes the step took from the source, and what it took off the budget
Taken == r'.r.pos - r.r.pos
Charged == r.n - r'.n

\* C17: a successful DecodeFrameHeader takes exactly 3 bytes for an
\* interframe and exactly 10 for a key frame, a sync mismatch is reported
\* after all 10 bytes were taken, and a successful DecodeFrame takes
\* exactly FirstPartitionLen bytes; the budget drops by the same amounts.
C17_BytesTaken ==
    [][ /\ (ret'.op = "DecodeFrameHeader" /\ ret'.err = NoErr)
            => /\ Taken = (IF ret'.fh.KeyFrame THEN 10 ELSE 3)
               /\ Len(read') = Taken
               /\ Charged = Taken
        /\ (ret'.op = "DecodeFrameHeader" /\ ret'.err = ErrInvalidFormat)
            => /\ Taken = 10
               /\ Len(read') = 10
               /\ Charged = 10
        /\ (ret'.op = "DecodeFrame" /\ ret'.err = NoErr)
            => /\ Taken = frameHeader.FirstPartitionLen
               /\ Len(read') = Taken
               /\ Charged = Taken ]_vars

\* C17 witness: an interframe header of 3 bytes and then its first
\* partition of 2 bytes were taken, 5 bytes off the budget.
C17_Witness ==
    /\ Called("DecodeFrame") /\ ret.err = NoErr
    /\ ~frameHeader.KeyFrame /\ frameHeader.FirstPartitionLen = 2
    /\ Len(read) = 2
    /\ r.r.pos = 5 /\ r.n = limit - 5

\* C18: a DecodeFrameHeader that fails, on the first 3 bytes, on the 7
\* bytes of a key frame or on the sync code, leaves Width, Height, XScale
\* and YScale of the stored frame header and the grid mbw x mbh as they
\* were before the call.
C18_FailedHeaderKeepsGeometry ==
    [][ (ret'.op = "DecodeFrameHeader" /\ ret'.err # NoErr)
        => /\ Geometry(frameHeader') = Geometry(frameHeader)
           /\ mbw' = mbw
           /\ mbh' = mbh ]_vars

\* C18 witness: after the key frame of 176 x 144, a key-frame header of a
\* first partition of 1 byte was rejected for its sync code; the geometry
\* and the grid are still those of 176 x 144.
C18_Witness ==
    /\ Called("DecodeFrameHeader") /\ ret.err = ErrInvalidFormat
    /\ Len(read) = 10
    /\ frameHeader.KeyFrame /\ frameHeader.FirstPartitionLen = 1
    /\ lastKey = [Width |-> 176, Height |-> 144, XScale |-> 0, YScale |-> 0]
    /\ Geometry(frameHeader) = lastKey
    /\ mbw = 11 /\ mbh = 9

\* C19: Init takes no byte from the source it binds and sets the budget to
\* n; the frame header, the grid, the image and the first partition are
\* after Init what they were before.
C19_InitKeepsState ==
    [][ ret'.op = "Init"
        => /\ r'.r.pos = 0
           /\ read' = <<>>
           /\ r'.n = limit'
           /\ frameHeader' = frameHeader
           /\ mbw' = mbw
           /\ mbh' = mbh
           /\ img' = img
           /\ fp' = fp ]_vars

\* C19 witness: Init on a Decoder that holds the header, the grid and the
\* image of a decoded 176 x 144 key frame.
C19_Witness ==
    /\ Called("Init")
    /\ r.r.pos = 0 /\ r.n = limit
    /\ frameHeader.KeyFrame
    /\ frameHeader.Width = 176 /\ frameHeader.Height = 144
    /\ mbw = 11 /\ mbh = 9
    /\ img # NoImg /\ img.YStride = 176

====
